---- MODULE Spec2Model ----
(***************************************************************************)
(* The observability proxy of src/observability_proxy_server/server.py:    *)
(* one inbound POST request, the relay generator proxy_chat_completion it  *)
(* drives, the trace record the relay opens and updates, the outbound call *)
(* to the upstream provider, and what the inbound client receives.         *)
(*                                                                         *)
(* Text is a TLA+ string (concatenated with \o).  A stream line is kept as *)
(* its three parts (marker, leading blanks, core) because a string cannot  *)
(* be indexed; LineText gives the line's text.  JSON values are tagged     *)
(* records, objects are key/value sequences in insertion order (a Python   *)
(* dict).  Model ids are character sequences.                              *)
(***************************************************************************)
EXTENDS Integers, Sequences, FiniteSets, TLC

\* ------------------------------------------------------------------ bounds
\* The longest upstream event stream, in lines.
MaxLines == 3

\* --------------------------------------------------------------- constants
HTTP_OK == 200
HTTP_BAD_REQUEST == 400
HTTP_INTERNAL == 500

\* ------------------------------------------------------------- JSON values
JNull == [t |-> "null"]
JStr(s) == [t |-> "str", v |-> s]
JNum(n) == [t |-> "num", v |-> n]
JArr(a) == [t |-> "arr", v |-> a]
JObj(p) == [t |-> "obj", v |-> p]

\* The result of a Python expression that may raise.
Ok(val) == [ok |-> TRUE, val |-> val]
Raised == [ok |-> FALSE, val |-> JNull]

HasKey(p, k) == \E i \in 1..Len(p) : p[i][1] = k
ValueOf(p, k) == p[CHOOSE i \in 1..Len(p) : p[i][1] = k][2]

\* bool(x)
Truthy(j) ==
    CASE j.t = "null" -> FALSE
      [] j.t = "str" -> j.v # ""
      [] j.t = "num" -> j.v # 0
      [] j.t = "arr" -> j.v # <<>>
      [] j.t = "obj" -> j.v # <<>>

\* k in x, for a string k: "yes", "no", or "raise" (TypeError).  The JSON
\* strings of this model are shorter than any key looked up in them.
PyContains(j, k) ==
    CASE j.t = "obj" -> IF HasKey(j.v, k) THEN "yes" ELSE "no"
      [] j.t = "arr" -> IF \E i \in 1..Len(j.v) : j.v[i] = JStr(k) THEN "yes" ELSE "no"
      [] j.t = "str" -> "no"
      [] OTHER -> "raise"

\* x[k], for a string k: KeyError on a missing key, TypeError off a dict.
PySubscript(j, k) ==
    IF j.t = "obj" /\ HasKey(j.v, k) THEN Ok(ValueOf(j.v, k)) ELSE Raised

\* x[0]: IndexError on an empty list, KeyError on a dict, TypeError on a
\* number or null; a one-character string of a non-empty string (only its
\* type matters: every use the relay makes of it raises).
PyIndex0(j) ==
    CASE j.t = "arr" /\ j.v # <<>> -> Ok(j.v[1])
      [] j.t = "str" /\ j.v # "" -> Ok(JStr(j.v))
      [] OTHER -> Raised

\* x.get(k, default): AttributeError off a dict.
PyGet(j, k, default) ==
    IF j.t = "obj"
    THEN Ok(IF HasKey(j.v, k) THEN ValueOf(j.v, k) ELSE default)
    ELSE Raised

NumStr(n) ==
    CASE n = 0 -> "0"
      [] n = 1 -> "1"
      [] n = 5 -> "5"
      [] n = 200 -> "200"
      [] n = 400 -> "400"
      [] n = 429 -> "429"
      [] n = 500 -> "500"
      [] n = 503 -> "503"

RECURSIVE JsonDumps(_), DumpItems(_), DumpPairs(_)
\* json.dumps with its default separators ", " and ": ".
JsonDumps(j) ==
    CASE j.t = "null" -> "null"
      [] j.t = "str" -> "\"" \o j.v \o "\""
      [] j.t = "num" -> NumStr(j.v)
      [] j.t = "arr" -> "[" \o DumpItems(j.v) \o "]"
      [] j.t = "obj" -> "{" \o DumpPairs(j.v) \o "}"
DumpItems(a) ==
    IF a = <<>> THEN ""
    ELSE IF Len(a) = 1 THEN JsonDumps(a[1])
    ELSE JsonDumps(a[1]) \o ", " \o DumpItems(Tail(a))
DumpPairs(p) ==
    IF p = <<>> THEN ""
    ELSE LET one == "\"" \o p[1][1] \o "\": " \o JsonDumps(p[1][2])
         IN  IF Len(p) = 1 THEN one ELSE one \o ", " \o DumpPairs(Tail(p))

\* The JSON values the upstream provider sends in this model.
DeltaValue(s) ==
    JObj(<< <<"choices", JArr(<< JObj(<< <<"delta", JObj(<< <<"content", JStr(s)>> >>)>> >>) >>)>> >>)
MessageValue(content) ==
    JObj(<< <<"message", JObj(<< <<"content", content>> >>)>> >>)
UsageValue == JObj(<< <<"total_tokens", JNum(5)>> >>)
CompletionValue(choices, usage) ==
    JObj(<< <<"choices", JArr(choices)>> >> \o usage)

\* json.loads / response.json() on the texts of this model: the value, or
\* Raised for json.JSONDecodeError.
JsonLoads(text) ==
    CASE text = "{\"choices\":[{\"delta\":{\"content\":\"a\"}}]}" -> Ok(DeltaValue("a"))
      [] text = "{\"choices\":[{\"delta\":{\"content\":\"b\"}}]}" -> Ok(DeltaValue("b"))
      [] text = "{}" -> Ok(JObj(<<>>))
      [] text = "{\"choices\":[]}" -> Ok(CompletionValue(<<>>, <<>>))
      [] text = "{\"choices\":[{\"delta\":{\"content\":null}}]}" ->
            Ok(JObj(<< <<"choices", JArr(<< JObj(<< <<"delta",
                    JObj(<< <<"content", JNull>> >>)>> >>) >>)>> >>))
      [] text = "5" -> Ok(JNum(5))
      [] text = "{\"choices\":[{\"message\":{\"content\":\"hi\"}}],\"usage\":{\"total_tokens\":5}}" ->
            Ok(CompletionValue(<<MessageValue(JStr("hi"))>>, << <<"usage", UsageValue>> >>))
      [] text = "{\"choices\": [{\"message\": {\"content\": \"hi\"}}], \"usage\": {\"total_tokens\": 5}}" ->
            Ok(CompletionValue(<<MessageValue(JStr("hi"))>>, << <<"usage", UsageValue>> >>))
      [] text = "{\"choices\":[{\"message\":{\"content\":\"yo\"}},{\"message\":{\"content\":\"no\"}}]}" ->
            Ok(CompletionValue(<<MessageValue(JStr("yo")), MessageValue(JStr("no"))>>, <<>>))
      [] text = "{\"choices\":[{\"message\":{}}]}" ->
            Ok(CompletionValue(<<JObj(<< <<"message", JObj(<<>>)>> >>)>>, <<>>))
      [] text = "{\"choices\":[],\"usage\":{\"total_tokens\":5}}" ->
            Ok(CompletionValue(<<>>, << <<"usage", UsageValue>> >>))
      [] text = "{\"choices\":[{\"message\":{\"content\":null}}]}" ->
            Ok(CompletionValue(<<MessageValue(JNull)>>, <<>>))
      [] text = "[]" -> Ok(JArr(<<>>))
      [] OTHER -> Raised

\* ------------------------------------------------------- normalize_model_name
SLASH == "/"
DASH == "-"
CLAUDE == <<"c", "l", "a", "u", "d", "e">>
GPT == <<"g", "p", "t">>
ANTHROPIC_PREFIX == <<"a", "n", "t", "h", "r", "o", "p", "i", "c", "/">>
OPENAI_PREFIX == <<"o", "p", "e", "n", "a", "i", "/">>

\* sub in s
Contains(s, sub) ==
    \E i \in 1..(Len(s) - Len(sub) + 1) : SubSeq(s, i, i + Len(sub) - 1) = sub

RECURSIVE Split(_, _), Join(_, _)
\* s.split(c)
Split(s, c) ==
    IF \A i \in 1..Len(s) : s[i] # c THEN <<s>>
    ELSE LET k == CHOOSE i \in 1..Len(s) : s[i] = c /\ \A j \in 1..(i - 1) : s[j] # c
         IN  <<SubSeq(s, 1, k - 1)>> \o Split(SubSeq(s, k + 1, Len(s)), c)
\* c.join(parts)
Join(parts, c) ==
    IF parts = <<>> THEN <<>>
    ELSE IF Len(parts) = 1 THEN parts[1]
    ELSE parts[1] \o <<c>> \o Join(Tail(parts), c)

\* normalize with the Anthropic rule tried before the provider check.
normalize_model_name_ClaudeFirst(model_id) ==
    IF Contains(model_id, CLAUDE)
    THEN LET parts == Split(model_id, DASH)
         IN  IF Len(parts) > 3
             THEN ANTHROPIC_PREFIX \o Join(SubSeq(parts, 1, 3), DASH)
             ELSE ANTHROPIC_PREFIX \o model_id
    ELSE IF Contains(model_id, <<SLASH>>) THEN model_id
    ELSE IF Contains(model_id, GPT) THEN OPENAI_PREFIX \o model_id
    ELSE model_id
\* normalize truncating only ids of more than four parts.
normalize_model_name_LateTruncation(model_id) ==
    IF Contains(model_id, <<SLASH>>) THEN model_id
    ELSE IF Contains(model_id, CLAUDE)
    THEN LET parts == Split(model_id, DASH)
         IN  IF Len(parts) > 4
             THEN ANTHROPIC_PREFIX \o Join(SubSeq(parts, 1, 3), DASH)
             ELSE ANTHROPIC_PREFIX \o model_id
    ELSE IF Contains(model_id, GPT) THEN OPENAI_PREFIX \o model_id
    ELSE model_id
\* normalize with the OpenAI rule tried before the Anthropic rule.
normalize_model_name_GptFirst(model_id) ==
    IF Contains(model_id, <<SLASH>>) THEN model_id
    ELSE IF Contains(model_id, GPT) THEN OPENAI_PREFIX \o model_id
    ELSE IF Contains(model_id, CLAUDE)
    THEN LET parts == Split(model_id, DASH)
         IN  IF Len(parts) > 3
             THEN ANTHROPIC_PREFIX \o Join(SubSeq(parts, 1, 3), DASH)
             ELSE ANTHROPIC_PREFIX \o model_id
    ELSE model_id
\* normalize with an OpenAI prefix that ends in a dash instead of a slash.
normalize_model_name_DashPrefix(model_id) ==
    IF Contains(model_id, <<SLASH>>) THEN model_id
    ELSE IF Contains(model_id, CLAUDE)
    THEN LET parts == Split(model_id, DASH)
         IN  IF Len(parts) > 3
             THEN ANTHROPIC_PREFIX \o Join(SubSeq(parts, 1, 3), DASH)
             ELSE ANTHROPIC_PREFIX \o model_id
    ELSE IF Contains(model_id, GPT) THEN <<"o", "p", "e", "n", "a", "i", "-">> \o model_id
    ELSE model_id

normalize_model_name(model_id) ==
    IF Contains(model_id, <<SLASH>>) THEN model_id
    ELSE IF Contains(model_id, CLAUDE)
    THEN LET parts == Split(model_id, DASH)
         IN  IF Len(parts) > 3
             THEN ANTHROPIC_PREFIX \o Join(SubSeq(parts, 1, 3), DASH)
             ELSE ANTHROPIC_PREFIX \o model_id
    ELSE IF Contains(model_id, GPT) THEN OPENAI_PREFIX \o model_id
    ELSE model_id

\* "gpt-4o" and "claude-3-haiku-20240307"
ModelGpt4o == <<"g", "p", "t", "-", "4", "o">>
ModelClaudeHaiku ==
    CLAUDE \o <<"-", "3", "-", "h", "a", "i", "k", "u", "-", "2", "0", "2", "4", "0", "3", "0", "7">>
ModelIds == {ModelGpt4o, ModelClaudeHaiku}

\* Model ids at large: up to MaxParts fragments in a row, each a rule's
\* keyword, a separator or a filler, and the ids the docstring and the rules
\* name.
MaxParts == 4
LLAMA == <<"l", "l", "a", "m", "a">>
Fragments == {CLAUDE, GPT, <<DASH>>, <<SLASH>>, <<"3">>, LLAMA}
RECURSIVE FragmentIds(_)
FragmentIds(n) ==
    IF n = 0 THEN {<<>>}
    ELSE {f \o rest : f \in Fragments, rest \in FragmentIds(n - 1)}
ModelClaudeInstant == CLAUDE \o <<"-", "i", "n", "s", "t", "a", "n", "t">>
ModelLlama3 == LLAMA \o <<"-", "3">>
AllModelIds ==
    UNION {FragmentIds(n) : n \in 1..MaxParts}
    \cup {ModelGpt4o, ModelClaudeHaiku, ModelClaudeInstant, ModelLlama3}

\* ------------------------------------------------------------- stream lines
\* A line of the upstream event stream, as response.aiter_lines() gives it
\* (no line ending): its text is marker \o lead \o core, lead is blanks and
\* core has no blank at either end.
DATA_MARKER == "data: "
DONE_SENTINEL == "[DONE]"
Line(marker, lead, core) == [marker |-> marker, lead |-> lead, core |-> core]
LineText(l) == l.marker \o l.lead \o l.core

EmptyLine == Line("", "", "")
CommentLine == Line("", "", ": keep-alive")
DeltaLineA == Line(DATA_MARKER, "", "{\"choices\":[{\"delta\":{\"content\":\"a\"}}]}")
DeltaLineB == Line(DATA_MARKER, "", "{\"choices\":[{\"delta\":{\"content\":\"b\"}}]}")
DoneLine == Line(DATA_MARKER, "", DONE_SENTINEL)
MalformedLine == Line(DATA_MARKER, "", "{\"choices\":[{\"del")
NumberLine == Line(DATA_MARKER, " ", "5")
EmptyChoicesLine == Line(DATA_MARKER, "", "{\"choices\":[]}")
NullContentLine == Line(DATA_MARKER, "", "{\"choices\":[{\"delta\":{\"content\":null}}]}")
LineSet ==
    {EmptyLine, CommentLine, DeltaLineA, DeltaLineB, DoneLine, MalformedLine, NumberLine,
     EmptyChoicesLine, NullContentLine}
Streams == UNION {[1..n -> LineSet] : n \in 0..MaxLines}

\* ---------------------------------------------------------------- exceptions
Exc(type, status_code, detail) ==
    [type |-> type, status_code |-> status_code, detail |-> detail]
NoExc == Exc("none", 0, "")
HTTPException(status_code, detail) == Exc("HTTPException", status_code, detail)
\* str(e): the message of a plain exception; "<status>: <detail>" for an
\* HTTPException.
ExcStr(e) ==
    IF e.type = "HTTPException" THEN NumStr(e.status_code) \o ": " \o e.detail
    ELSE e.detail
MISSING_KEY_MESSAGE == "Server configuration error: Missing OPENROUTER_API_KEY"
UPSTREAM_ERROR_PREFIX == "OpenRouter API Error: "

\* --------------------------------------------------------- upstream provider
\* The bytes of an error body: valid UTF-8 for text, or text followed by a
\* byte that is not valid UTF-8.
BodyBytes(text, invalid) == [text |-> text, invalid |-> invalid]
ErrorBodies == {BodyBytes("rate limited", FALSE), BodyBytes("rate limited", TRUE)}
ErrorStatuses == {429, 503}
\* bytes.decode(): strict
Decode(b) == IF b.invalid THEN Raised ELSE Ok(JStr(b.text))
\* httpx Response.text: undecodable bytes become U+FFFD
ResponseText(b) == IF b.invalid THEN b.text \o "<U+FFFD>" ELSE b.text

CompletionBodies ==
    { "{\"choices\":[{\"message\":{\"content\":\"hi\"}}],\"usage\":{\"total_tokens\":5}}",
      "{\"choices\": [{\"message\": {\"content\": \"hi\"}}], \"usage\": {\"total_tokens\": 5}}",
      "{\"choices\":[{\"message\":{\"content\":\"yo\"}},{\"message\":{\"content\":\"no\"}}]}",
      "{\"choices\":[{\"message\":{}}]}",
      "{\"choices\":[{\"message\":{\"content\":null}}]}",
      "{\"choices\":[],\"usage\":{\"total_tokens\":5}}",
      "{}",
      "[]",
      "<html>Bad Gateway</html>" }

Response(status, body, lines) ==
    [kind |-> "response", status |-> status, body |-> body, lines |-> lines]
ConnectFailure == [kind |-> "failure", status |-> 0, body |-> BodyBytes("", FALSE), lines |-> <<>>]
NoResponse == [kind |-> "none", status |-> 0, body |-> BodyBytes("", FALSE), lines |-> <<>>]
\* What the provider may answer to a call.
UpstreamAnswers(streaming) ==
    {ConnectFailure}
    \cup {Response(st, b, <<>>) : st \in ErrorStatuses, b \in ErrorBodies}
    \cup (IF streaming
          THEN {Response(HTTP_OK, BodyBytes("", FALSE), ls) : ls \in Streams}
          ELSE {Response(HTTP_OK, BodyBytes(t, FALSE), <<>>) : t \in CompletionBodies})

\* ------------------------------------------------------------ inbound request
None == <<>>
Some(x) == <<x>>
\* if x: for an Optional[str]
OptTruthy(x) == x # None /\ x[1] # ""

CHAT_COMPLETIONS == "/chat/completions"
MESSAGES == "/v1/messages"
Endpoints == {CHAT_COMPLETIONS, MESSAGES}
SessionValue == "sess-1"
ChatMessages ==
    << [role |-> "system", content |-> "be brief"], [role |-> "user", content |-> "hello"] >>
BaseRequest(m, st) == [model |-> m, messages |-> ChatMessages, stream |-> st]
\* The correlation field of each endpoint, and what a client may put there: a
\* dict with the id, with an empty id or without it, or (written as a tagged
\* JSON value, which no request dict is) something that is no dict at all.
CorrelationField(ep) == IF ep = CHAT_COMPLETIONS THEN "response_format" ELSE "metadata"
CorrelationKey(ep) == IF ep = CHAT_COMPLETIONS THEN "type" ELSE "user_id"
\* isinstance(x, dict) for a value of a request dict
PyIsDict(x) == ~({"t", "v"} \subseteq DOMAIN x)
\* The bodies a client posts: plain, or carrying the endpoint's correlation
\* field.
RequestBodies(ep) ==
    LET base == {BaseRequest(m, st) : m \in ModelIds, st \in BOOLEAN}
        one == {BaseRequest(ModelGpt4o, st) : st \in BOOLEAN}
        With(bs, x) == {b @@ (CorrelationField(ep) :> x) : b \in bs}
    IN  base
        \cup With(base, (CorrelationKey(ep) :> SessionValue))
        \cup With(one, (CorrelationKey(ep) :> ""))
        \cup With(one, <<>>)
        \cup With(one, JStr(SessionValue))
\* A POST request: its body parses as JSON (valid) to data, a dict (object) or
\* the list [], or it does not, being text that is not JSON, or bytes that are
\* not UTF-8 text at all.
Inbounds ==
    {[endpoint |-> ep, valid |-> FALSE, utf8 |-> u, object |-> FALSE, data |-> <<>>] :
        ep \in Endpoints, u \in BOOLEAN}
    \cup {[endpoint |-> ep, valid |-> TRUE, utf8 |-> TRUE, object |-> FALSE, data |-> <<>>] :
            ep \in Endpoints}
    \cup UNION {{[endpoint |-> ep, valid |-> TRUE, utf8 |-> TRUE, object |-> TRUE, data |-> d] :
                    d \in RequestBodies(ep)} : ep \in Endpoints}
\* str() of the UnicodeDecodeError json.loads raises on the body b"\xff{}"
UNDECODABLE_MESSAGE == "'utf-8' codec can't decode byte 0xff in position 0: invalid start byte"
\* str() of the AttributeError of [].get and of "sess-1".get
LIST_GET_MESSAGE == "'list' object has no attribute 'get'"
STR_GET_MESSAGE == "'str' object has no attribute 'get'"

\* d.get(k, default) on a request dict
DictGet(d, k, default) == IF k \in DOMAIN d THEN d[k] ELSE default
\* d.get(k) giving an Optional
DictGetOpt(d, k) == IF k \in DOMAIN d THEN Some(d[k]) ELSE None

\* An extraction that looks for metadata.user_id on both endpoints.
ExtractSessionId_MetadataOnly(ep, d) ==
    DictGetOpt(DictGet(d, "metadata", <<>>), "user_id")

\* The session id each endpoint extracts.
ExtractSessionId(ep, d) ==
    IF ep = CHAT_COMPLETIONS
    THEN IF "response_format" \in DOMAIN d /\ PyIsDict(d["response_format"])
         THEN DictGetOpt(d["response_format"], "type")
         ELSE None
    ELSE DictGetOpt(DictGet(d, "metadata", <<>>), "user_id")

\* What the handler's try block raises before it calls the relay, NoExc when
\* it gets that far: request.json() on a body that is not JSON, .get on a
\* body that is a list, .get on a metadata that is a string.
HandlerFailure(req) ==
    IF ~req.valid
    THEN IF req.utf8
         THEN Exc("JSONDecodeError", 0, "Expecting value: line 1 column 1 (char 0)")
         ELSE Exc("UnicodeDecodeError", 0, UNDECODABLE_MESSAGE)
    ELSE IF ~req.object THEN Exc("AttributeError", 0, LIST_GET_MESSAGE)
    ELSE IF req.endpoint = MESSAGES /\ ~PyIsDict(DictGet(req.data, "metadata", <<>>))
    THEN Exc("AttributeError", 0, STR_GET_MESSAGE)
    ELSE NoExc

\* ---------------------------------------------------- the relay's pure steps
\* The outbound headers.
BuildHeaders(sid) ==
    LET fixed == [k \in {"Authorization", "Content-Type", "HTTP-Referer", "X-Title"} |->
                    CASE k = "Authorization" -> "Bearer <key>"
                      [] k = "Content-Type" -> "application/json"
                      [] k = "HTTP-Referer" -> "http://localhost:8000"
                      [] k = "X-Title" -> "Graphiti Proxy Server"]
    IN  IF OptTruthy(sid) THEN fixed @@ ("X-Session-Id" :> sid[1]) ELSE fixed

\* A filter that drops the correlation field of either endpoint.
FilteredRequest_DropsCorrelation(d) ==
    [k \in (DOMAIN d) \ {"response_format", "metadata"} |-> d[k]]
\* The JSON body sent upstream.
FilteredRequest(d) == [k \in (DOMAIN d) \ {"response_format"} |-> d[k]]

\* The request with its model id normalized.
NormalizedRequest(d) ==
    IF "model" \in DOMAIN d
    THEN [d EXCEPT !["model"] = normalize_model_name(d["model"])]
    ELSE d

\* The chunk yielded for a line.
SSE_TERMINATOR == "\\n\\n"
Chunk(text) == text \o SSE_TERMINATOR

\* UpstreamError raising an unclassified error: the upstream status is lost.
UpstreamError_StatusLost(streaming, status, body) ==
    HTTPException(HTTP_INTERNAL, UPSTREAM_ERROR_PREFIX \o ResponseText(body))

\* The error raised for a non-200 upstream answer.
UpstreamError(streaming, status, body) ==
    IF streaming
    THEN LET text == Decode(body)
         IN  IF text.ok
             THEN HTTPException(status, UPSTREAM_ERROR_PREFIX \o text.val.v)
             ELSE Exc("UnicodeDecodeError", 0, "'utf-8' codec can't decode byte")
    ELSE HTTPException(status, UPSTREAM_ERROR_PREFIX \o ResponseText(body))

\* What the loop does after a line's chunk was taken: go on, break, or raise.
Step(next, out, e) == [next |-> next, out |-> out, exc |-> e]
\* Stands for the TypeError, KeyError, IndexError or AttributeError that
\* navigating a JSON value of an unexpected shape raises.
TypeError == Exc("TypeError", 0, "unsupported operand or attribute")
\* OnJSONDecodeError without its except clause: the decode error escapes.
OnJSONDecodeError_Escapes(out) ==
    Step("raise", out, Exc("JSONDecodeError", 0, "Expecting value"))
\* except json.JSONDecodeError: continue
OnJSONDecodeError(out) == Step("loop", out, NoExc)

\* AppendDelta with = for +=: the last delta replaces the accumulator.
AppendDelta_Overwrite(out, content) == content
\* output_content += delta["content"]
AppendDelta(out, content) == out \o content

AccumulateDelta(chunk_data, out) ==
    LET has == PyContains(chunk_data, "choices")
    IN  IF has = "raise" THEN Step("raise", out, TypeError)
        ELSE IF has = "no" THEN Step("loop", out, NoExc)
        ELSE
        LET choices == PySubscript(chunk_data, "choices")
        IN  IF ~choices.ok THEN Step("raise", out, TypeError)
            ELSE IF ~Truthy(choices.val) THEN Step("loop", out, NoExc)
            ELSE
            LET first == PyIndex0(choices.val)
                delta == IF first.ok THEN PyGet(first.val, "delta", JObj(<<>>)) ELSE Raised
                hasc == IF delta.ok THEN PyContains(delta.val, "content") ELSE "raise"
                content == IF hasc = "yes" THEN PySubscript(delta.val, "content") ELSE Raised
            IN  IF hasc = "raise" THEN Step("raise", out, TypeError)
                ELSE IF hasc = "no" THEN Step("loop", out, NoExc)
                ELSE IF ~content.ok THEN Step("raise", out, TypeError)
                ELSE IF content.val = JNull THEN Step("loop", out, NoExc)
                ELSE IF content.val.t # "str" THEN Step("raise", out, TypeError)
                ELSE Step("loop", AppendDelta(out, content.val.v), NoExc)

\* ProcessLine without the sentinel test: [DONE] goes to json.loads.
ProcessLine_NoBreak(l, out) ==
    IF l.marker # DATA_MARKER THEN Step("loop", out, NoExc)
    ELSE LET chunk_data == JsonLoads(l.core)
         IN  IF chunk_data.ok THEN AccumulateDelta(chunk_data.val, out)
             ELSE OnJSONDecodeError(out)

ProcessLine(l, out) ==
    IF l.marker # DATA_MARKER THEN Step("loop", out, NoExc)
    ELSE IF l.core = DONE_SENTINEL THEN Step("break", out, NoExc)
    ELSE LET chunk_data == JsonLoads(l.core)
         IN  IF chunk_data.ok THEN AccumulateDelta(chunk_data.val, out)
             ELSE OnJSONDecodeError(out)

\* The output and usage a buffered body gives, or the exception it raises.
Buffered(ok, output, usage, chunk, e) ==
    [ok |-> ok, output |-> output, usage |-> usage, chunk |-> chunk, exc |-> e]
BufferedFailure(e) == Buffered(FALSE, JNull, JNull, "", e)
\* ProcessBody yielding response.text instead of json.dumps(response_data),
\* and recording no usage.
ProcessBody_RawText(text) ==
    IF JsonLoads(text).ok /\ JsonLoads(text).val.t = "obj"
    THEN Buffered(TRUE, JStr(""), JNull, text, NoExc)
    ELSE BufferedFailure(TypeError)
ProcessBody(text) ==
    LET response_data == JsonLoads(text)
    IN  IF ~response_data.ok
        THEN BufferedFailure(Exc("JSONDecodeError", 0, "Expecting value"))
        ELSE
        LET data == response_data.val
            has == PyContains(data, "choices")
            choices == IF has = "yes" THEN PySubscript(data, "choices") ELSE Raised
            taken == has = "yes" /\ choices.ok /\ Truthy(choices.val)
            first == IF taken THEN PyIndex0(choices.val) ELSE Raised
            message == IF first.ok THEN PyGet(first.val, "message", JObj(<<>>)) ELSE Raised
            content == IF message.ok THEN PyGet(message.val, "content", JStr("")) ELSE Raised
            usage == PyGet(data, "usage", JNull)
        IN  IF has = "raise" \/ (has = "yes" /\ ~choices.ok) THEN BufferedFailure(TypeError)
            ELSE IF taken /\ ~content.ok THEN BufferedFailure(TypeError)
            ELSE IF ~usage.ok THEN BufferedFailure(TypeError)
            ELSE Buffered(TRUE, IF taken THEN content.val ELSE JStr(""), usage.val,
                          JsonDumps(data), NoExc)

\* The two terminal updates of the generation.
SuccessUpdate(output, usage) ==
    [kind |-> "success", output |-> output, usage |-> usage, status_message |-> ""]
ErrorUpdate(e) ==
    [kind |-> "error", output |-> JNull, usage |-> JNull, status_message |-> ExcStr(e)]
\* The error the relay raises for the exception it caught.
Reraised(e) ==
    IF e.type = "HTTPException" THEN e ELSE HTTPException(HTTP_INTERNAL, ExcStr(e))

\* -------------------------------------------------------------------- state
VARIABLES
    inbound,         \* the POST request: endpoint, whether its body is JSON, the body
    api_key_set,     \* whether OPENROUTER_API_KEY is set
    relays,          \* the relay invocations the handler started
    apc,             \* where the endpoint handler and its response are
    request_data,    \* the request dict the handler and the relay share
    session_id,      \* the correlation id the handler extracted
    rpc,             \* where the relay generator is
    trace,           \* the trace records opened and the updates of the generation
    outbound,        \* the calls made to the upstream provider
    upstream,        \* what the provider answered
    pos,             \* the upstream lines read so far
    output_content,  \* the relay's text accumulator
    yielded,         \* the chunks the relay yielded
    exc,             \* the exception the relay's try block ended with
    relay_error,     \* the error the relay raised to its consumer
    conn_open,       \* whether the outbound client or response is open
    client           \* what the inbound client received

vars ==
    << inbound, api_key_set, relays, apc, request_data, session_id, rpc, trace, outbound,
       upstream, pos, output_content, yielded, exc, relay_error, conn_open, client >>

NoTrace == [opened |-> 0, session_id |-> None, model |-> <<>>, input |-> <<>>, updates |-> <<>>]
NoClient == [status |-> 0, detail |-> "", body |-> "", chunks |-> <<>>, ended |-> "open"]

Init ==
    /\ inbound \in Inbounds
    /\ api_key_set \in BOOLEAN
    /\ relays = 0
    /\ apc = "recv"
    /\ request_data = <<>>
    /\ session_id = None
    /\ rpc = "none"
    /\ trace = NoTrace
    /\ outbound = <<>>
    /\ upstream = NoResponse
    /\ pos = 0
    /\ output_content = JStr("")
    /\ yielded = <<>>
    /\ exc = NoExc
    /\ relay_error = NoExc
    /\ conn_open = FALSE
    /\ client = NoClient

IsStreaming == DictGet(request_data, "stream", FALSE)

\* ------------------------------------------------------ the endpoint handlers
\* chat_completions / messages up to the point where the relay is iterated:
\* request.json() is json.loads of the body bytes, so a body that is text but
\* not JSON raises JSONDecodeError and is answered 400; anything else raised on
\* the way to the relay is answered 500 by except Exception; the relay is
\* called when nothing was raised; a streaming request gets its
\* StreamingResponse, whose 200 status line goes out before the first chunk is
\* asked for.
HandleRequest ==
    /\ apc = "recv"
    /\ LET e == HandlerFailure(inbound)
       IN  IF e # NoExc
           THEN /\ apc' = "responded"
                /\ client' = IF e.type = "JSONDecodeError"
                             THEN [client EXCEPT !.status = HTTP_BAD_REQUEST,
                                                 !.detail = "Invalid JSON in request body",
                                                 !.ended = "complete"]
                             ELSE [client EXCEPT !.status = HTTP_INTERNAL,
                                                 !.detail = ExcStr(e),
                                                 !.ended = "complete"]
                /\ UNCHANGED << request_data, session_id, rpc, relays >>
           ELSE /\ request_data' = inbound.data
                /\ session_id' = ExtractSessionId(inbound.endpoint, inbound.data)
                /\ rpc' = "created"
                /\ relays' = relays + 1
                /\ IF DictGet(inbound.data, "stream", FALSE)
                   THEN /\ apc' = "streaming"
                        /\ client' = [client EXCEPT !.status = HTTP_OK]
                   ELSE /\ apc' = "buffered"
                        /\ UNCHANGED client
    /\ UNCHANGED << inbound, api_key_set, trace, outbound, upstream, pos, output_content,
                    yielded, exc, relay_error, conn_open >>

\* ------------------------------------------------------------------ the relay
\* proxy_chat_completion up to its try: normalize the model id, open the
\* trace and its generation.
RelayOpen ==
    /\ rpc = "created"
    /\ request_data' = NormalizedRequest(request_data)
    /\ trace' = [trace EXCEPT !.opened = @ + 1,
                              !.session_id = session_id,
                              !.model = DictGet(request_data', "model", <<>>),
                              !.input = DictGet(request_data', "messages", <<>>)]
    /\ rpc' = "try"
    /\ UNCHANGED << inbound, api_key_set, relays, apc, session_id, outbound, upstream, pos,
                    output_content, yielded, exc, relay_error, conn_open, client >>

\* The credential check, the outbound call and the status check.
RelayCall ==
    /\ rpc = "try"
    /\ IF ~api_key_set
       THEN /\ exc' = Exc("ValueError", 0, MISSING_KEY_MESSAGE)
            /\ rpc' = "except"
            /\ UNCHANGED << outbound, upstream, conn_open >>
       ELSE /\ outbound' = Append(outbound, [headers |-> BuildHeaders(session_id),
                                             json |-> FilteredRequest(request_data)])
            /\ \E answer \in UpstreamAnswers(IsStreaming) :
                /\ upstream' = answer
                /\ IF answer.kind = "failure"
                   THEN /\ exc' = Exc("ConnectError", 0, "All connection attempts failed")
                        /\ rpc' = "except"
                        /\ conn_open' = FALSE
                   ELSE IF answer.status # HTTP_OK
                   THEN /\ exc' = UpstreamError(IsStreaming, answer.status, answer.body)
                        /\ rpc' = "except"
                        /\ conn_open' = FALSE
                   ELSE /\ exc' = exc
                        /\ rpc' = IF IsStreaming THEN "loop" ELSE "body"
                        /\ conn_open' = TRUE
    /\ UNCHANGED << inbound, api_key_set, relays, apc, request_data, session_id, trace, pos,
                    output_content, yielded, relay_error, client >>

\* Leaving the streaming branch normally: both connections are closed and the
\* generation gets the accumulated output.
FinishStream(out) ==
    /\ trace' = [trace EXCEPT !.updates = Append(@, SuccessUpdate(JStr(out), JNull))]
    /\ conn_open' = FALSE
    /\ rpc' = "done"

\* A loop that collects the chunks and goes on reading without suspending.
RelayNextLine_ReadAhead ==
    /\ rpc = "loop"
    /\ \/ /\ pos < Len(upstream.lines)
          /\ pos' = pos + 1
          /\ IF LineText(upstream.lines[pos + 1]) # ""
             THEN yielded' = Append(yielded, Chunk(LineText(upstream.lines[pos + 1])))
             ELSE UNCHANGED yielded
          /\ UNCHANGED << rpc, trace, exc, conn_open >>
       \/ /\ pos = Len(upstream.lines)
          /\ FinishStream(output_content.v)
          /\ UNCHANGED << pos, yielded, exc >>
       \/ /\ exc' = Exc("ReadError", 0, "peer closed connection")
          /\ rpc' = "except"
          /\ conn_open' = FALSE
          /\ UNCHANGED << pos, yielded, trace >>
    /\ UNCHANGED << inbound, api_key_set, relays, apc, request_data, session_id, outbound,
                    upstream, output_content, relay_error, client >>

\* The next turn of async for: a line, the end of the stream, or a failure of
\* the connection.  A non-empty line is yielded; the generator stays suspended
\* there until its consumer asks for the next chunk.
RelayNextLine ==
    /\ rpc = "loop"
    /\ \/ /\ pos < Len(upstream.lines)
          /\ pos' = pos + 1
          /\ IF LineText(upstream.lines[pos + 1]) # ""
             THEN /\ yielded' = Append(yielded, Chunk(LineText(upstream.lines[pos + 1])))
                  /\ rpc' = "yield"
             ELSE UNCHANGED << yielded, rpc >>
          /\ UNCHANGED << trace, exc, conn_open >>
       \/ /\ pos = Len(upstream.lines)
          /\ FinishStream(output_content.v)
          /\ UNCHANGED << pos, yielded, exc >>
       \/ /\ exc' = Exc("ReadError", 0, "peer closed connection")
          /\ rpc' = "except"
          /\ conn_open' = FALSE
          /\ UNCHANGED << pos, yielded, trace >>
    /\ UNCHANGED << inbound, api_key_set, relays, apc, request_data, session_id, outbound,
                    upstream, output_content, relay_error, client >>

\* The rest of the loop body, run when the consumer resumes the generator.
RelayParseLine ==
    /\ rpc = "resumed"
    /\ LET step == ProcessLine(upstream.lines[pos], output_content.v)
       IN  /\ output_content' = JStr(step.out)
           /\ CASE step.next = "loop" ->
                    /\ rpc' = "loop"
                    /\ UNCHANGED << trace, exc, conn_open >>
                [] step.next = "break" ->
                    /\ FinishStream(step.out)
                    /\ UNCHANGED exc
                [] step.next = "raise" ->
                    /\ exc' = step.exc
                    /\ rpc' = "except"
                    /\ conn_open' = FALSE
                    /\ UNCHANGED trace
    /\ UNCHANGED << inbound, api_key_set, relays, apc, request_data, session_id, outbound,
                    upstream, pos, yielded, relay_error, client >>

\* The buffered branch after a 200 answer: parse, update the generation, yield.
RelayBuffered ==
    /\ rpc = "body"
    /\ LET r == ProcessBody(upstream.body.text)
       IN  IF r.ok
           THEN /\ trace' = [trace EXCEPT !.updates = Append(@, SuccessUpdate(r.output, r.usage))]
                /\ yielded' = Append(yielded, r.chunk)
                /\ output_content' = r.output
                /\ rpc' = "yield"
                /\ UNCHANGED << exc, conn_open >>
           ELSE /\ exc' = r.exc
                /\ rpc' = "except"
                /\ conn_open' = FALSE
                /\ UNCHANGED << trace, yielded, output_content >>
    /\ UNCHANGED << inbound, api_key_set, relays, apc, request_data, session_id, outbound,
                    upstream, pos, relay_error, client >>

\* RelayExcept without generation.update: the error is raised unannotated.
RelayExcept_NoUpdate ==
    /\ rpc = "except"
    /\ relay_error' = Reraised(exc)
    /\ rpc' = "raised"
    /\ UNCHANGED << inbound, api_key_set, relays, apc, request_data, session_id, trace, outbound,
                    upstream, pos, output_content, yielded, exc, conn_open, client >>

\* An except block that reports the error to the consumer as one more chunk.
RelayExcept_ErrorChunk ==
    /\ rpc = "except"
    /\ trace' = [trace EXCEPT !.updates = Append(@, ErrorUpdate(exc))]
    /\ yielded' = Append(yielded, Chunk("data: {\"error\": \"" \o ExcStr(exc) \o "\"}"))
    /\ relay_error' = Reraised(exc)
    /\ rpc' = "raised"
    /\ UNCHANGED << inbound, api_key_set, relays, apc, request_data, session_id, outbound,
                    upstream, pos, output_content, exc, conn_open, client >>

\* An except block that tries the upstream call again after a connection
\* failure.
RelayExcept_Retry ==
    /\ rpc = "except"
    /\ IF exc.type = "ConnectError" /\ Len(outbound) < 2
       THEN /\ rpc' = "try"
            /\ exc' = NoExc
            /\ UNCHANGED << trace, relay_error >>
       ELSE /\ trace' = [trace EXCEPT !.updates = Append(@, ErrorUpdate(exc))]
            /\ relay_error' = Reraised(exc)
            /\ rpc' = "raised"
            /\ UNCHANGED exc
    /\ UNCHANGED << inbound, api_key_set, relays, apc, request_data, session_id, outbound,
                    upstream, pos, output_content, yielded, conn_open, client >>

\* except Exception: annotate the generation, then raise.
RelayExcept ==
    /\ rpc = "except"
    /\ trace' = [trace EXCEPT !.updates = Append(@, ErrorUpdate(exc))]
    /\ relay_error' = Reraised(exc)
    /\ rpc' = "raised"
    /\ UNCHANGED << inbound, api_key_set, relays, apc, request_data, session_id, outbound,
                    upstream, pos, output_content, yielded, exc, conn_open, client >>

\* ------------------------------------------------- the consumers of the relay
\* generate_stream hands the chunk to the streaming response, which sends it,
\* and asks the relay for the next one.
StreamChunk ==
    /\ apc = "streaming"
    /\ rpc = "yield"
    /\ client' = [client EXCEPT !.chunks = Append(@, yielded[Len(yielded)])]
    /\ rpc' = "resumed"
    /\ UNCHANGED << inbound, api_key_set, relays, apc, request_data, session_id, trace, outbound,
                    upstream, pos, output_content, yielded, exc, relay_error, conn_open >>

\* The relay ended: the streaming response ends.
StreamEnd ==
    /\ apc = "streaming"
    /\ rpc = "done"
    /\ apc' = "responded"
    /\ client' = [client EXCEPT !.ended = "complete"]
    /\ UNCHANGED << inbound, api_key_set, relays, request_data, session_id, rpc, trace, outbound,
                    upstream, pos, output_content, yielded, exc, relay_error, conn_open >>

\* The relay raised inside the streaming response: the status line has gone
\* out, so the response is cut short.
StreamAbort ==
    /\ apc = "streaming"
    /\ rpc = "raised"
    /\ apc' = "responded"
    /\ client' = [client EXCEPT !.ended = "aborted"]
    /\ UNCHANGED << inbound, api_key_set, relays, request_data, session_id, rpc, trace, outbound,
                    upstream, pos, output_content, yielded, exc, relay_error, conn_open >>

\* A generator closed at its yield that leaves the connections as they were.
ClientDisconnect_ConnLeftOpen ==
    /\ apc = "streaming"
    /\ rpc = "yield"
    /\ apc' = "disconnected"
    /\ rpc' = "closed"
    /\ client' = [client EXCEPT !.ended = "disconnected"]
    /\ UNCHANGED << inbound, api_key_set, relays, request_data, session_id, trace, outbound,
                    upstream, pos, output_content, yielded, exc, relay_error, conn_open >>

\* The inbound client goes away while the relay is suspended at its yield:
\* the generator is closed there (GeneratorExit, or CancelledError), which
\* except Exception does not catch; the async with blocks close the
\* connections.
ClientDisconnect ==
    /\ apc = "streaming"
    /\ rpc = "yield"
    /\ apc' = "disconnected"
    /\ rpc' = "closed"
    /\ conn_open' = FALSE
    /\ client' = [client EXCEPT !.ended = "disconnected"]
    /\ UNCHANGED << inbound, api_key_set, relays, request_data, session_id, trace, outbound,
                    upstream, pos, output_content, yielded, exc, relay_error >>

\* A handler that answers with the upstream body instead of the relay's chunk.
BufferedResponse_UpstreamText ==
    /\ apc = "buffered"
    /\ rpc = "yield"
    /\ apc' = "responded"
    /\ client' = [client EXCEPT !.status = HTTP_OK,
                                !.body = ResponseText(upstream.body),
                                !.ended = "complete"]
    /\ UNCHANGED << inbound, api_key_set, relays, request_data, session_id, rpc, trace, outbound,
                    upstream, pos, output_content, yielded, exc, relay_error, conn_open >>

\* The buffered branch of the handler: the first chunk is the response body.
BufferedResponse ==
    /\ apc = "buffered"
    /\ rpc = "yield"
    /\ apc' = "responded"
    /\ client' = [client EXCEPT !.status = HTTP_OK,
                                !.body = yielded[Len(yielded)],
                                !.ended = "complete"]
    /\ UNCHANGED << inbound, api_key_set, relays, request_data, session_id, rpc, trace, outbound,
                    upstream, pos, output_content, yielded, exc, relay_error, conn_open >>

\* except Exception in the handler: whatever the relay raised is answered 500.
BufferedError ==
    /\ apc = "buffered"
    /\ rpc = "raised"
    /\ apc' = "responded"
    /\ client' = [client EXCEPT !.status = HTTP_INTERNAL,
                                !.detail = ExcStr(relay_error),
                                !.ended = "complete"]
    /\ UNCHANGED << inbound, api_key_set, relays, request_data, session_id, rpc, trace, outbound,
                    upstream, pos, output_content, yielded, exc, relay_error, conn_open >>

\* The generator the handler broke out of is finalized: it is closed at its
\* yield, and the async with block closes the client.
GeneratorFinalize ==
    /\ apc = "responded"
    /\ rpc = "yield"
    /\ rpc' = "closed"
    /\ conn_open' = FALSE
    /\ UNCHANGED << inbound, api_key_set, relays, apc, request_data, session_id, trace, outbound,
                    upstream, pos, output_content, yielded, exc, relay_error, client >>

Next ==
    \/ HandleRequest
    \/ RelayOpen
    \/ RelayCall
    \/ RelayNextLine
    \/ RelayParseLine
    \/ RelayBuffered
    \/ RelayExcept
    \/ StreamChunk
    \/ StreamEnd
    \/ StreamAbort
    \/ ClientDisconnect
    \/ BufferedResponse
    \/ BufferedError
    \/ GeneratorFinalize

Spec == Init /\ [][Next]_vars

\* ---------------------------------------------- the model id on its own
\* A buffered chat completion request for each model id, taken as far as the
\* relay's normalization of the id.
NormInit ==
    /\ inbound \in {[endpoint |-> CHAT_COMPLETIONS, valid |-> TRUE, utf8 |-> TRUE,
                      object |-> TRUE,
                      data |-> BaseRequest(m, FALSE)] : m \in AllModelIds}
    /\ api_key_set = TRUE
    /\ relays = 0
    /\ apc = "recv"
    /\ request_data = <<>>
    /\ session_id = None
    /\ rpc = "none"
    /\ trace = NoTrace
    /\ outbound = <<>>
    /\ upstream = NoResponse
    /\ pos = 0
    /\ output_content = JStr("")
    /\ yielded = <<>>
    /\ exc = NoExc
    /\ relay_error = NoExc
    /\ conn_open = FALSE
    /\ client = NoClient

NormNext ==
    \/ HandleRequest
    \/ RelayOpen

NormSpec == NormInit /\ [][NormNext]_vars

\* ==================================================================== claims
\* What the claims speak of, stated apart from the relay's own operators.
IsSentinel(l) == LineText(l) = "data: [DONE]"
HasSentinel(ls) == \E i \in 1..Len(ls) : IsSentinel(ls[i])
FirstSentinel(ls) ==
    CHOOSE i \in 1..Len(ls) : IsSentinel(ls[i]) /\ \A j \in 1..(i - 1) : ~IsSentinel(ls[j])
UpToSentinel(ls) == IF HasSentinel(ls) THEN SubSeq(ls, 1, FirstSentinel(ls)) ELSE ls
IsNonEmpty(l) == LineText(l) # ""
NonEmptyLines(ls) == SelectSeq(ls, IsNonEmpty)
\* The choices[0].delta.content of a line, "" when it carries none.
DeltaText(l) ==
    CASE LineText(l) = "data: {\"choices\":[{\"delta\":{\"content\":\"a\"}}]}" -> "a"
      [] LineText(l) = "data: {\"choices\":[{\"delta\":{\"content\":\"b\"}}]}" -> "b"
      [] OTHER -> ""
RECURSIVE ConcatDeltas(_)
ConcatDeltas(ls) ==
    IF ls = <<>> THEN "" ELSE DeltaText(ls[1]) \o ConcatDeltas(Tail(ls))
IsMalformedData(l) == l.marker = "data: " /\ l.core = "{\"choices\":[{\"del"

Called == upstream.kind # "none"
Streaming200 ==
    /\ Called
    /\ upstream.kind = "response"
    /\ upstream.status = 200
    /\ request_data["stream"]
Buffered200 ==
    /\ Called
    /\ upstream.kind = "response"
    /\ upstream.status = 200
    /\ ~request_data["stream"]
UpstreamRefused == Called /\ upstream.kind = "response" /\ upstream.status # 200
RelayEnded == rpc \in {"done", "raised", "closed"}

\* C1: a streaming relay that completes on a 200 answer has yielded, and the
\* streaming response has emitted, one chunk per non-empty upstream line up to
\* and including the sentinel, in line order, and the only update of the trace
\* records as output the deltas of those lines concatenated in line order.
C1_StreamingRelay ==
    (Streaming200 /\ rpc = "done") =>
        LET ls == NonEmptyLines(UpToSentinel(upstream.lines))
        IN  /\ Len(yielded) = Len(ls)
            /\ \A i \in 1..Len(ls) : yielded[i] = Chunk(LineText(ls[i]))
            /\ client.chunks = yielded
            /\ Len(trace.updates) = 1
            /\ trace.updates[1].kind = "success"
            /\ trace.updates[1].output = JStr(ConcatDeltas(UpToSentinel(upstream.lines)))
\* The example of the specification: deltas "a", "b", then [DONE].
C1_Witness ==
    /\ Streaming200
    /\ rpc = "done"
    /\ upstream.lines = <<DeltaLineA, DeltaLineB, DoneLine>>
    /\ Len(client.chunks) = 3
    /\ trace.updates[1].output = JStr("ab")

\* C2: every chunk of a streaming relay is its upstream line followed by
\* exactly two newline characters.
C2_ChunkFraming ==
    Streaming200 =>
        LET ls == NonEmptyLines(upstream.lines)
        IN  \A i \in 1..Len(yielded) : yielded[i] = LineText(ls[i]) \o "\n\n"

\* C3: once the relay has raised and the handler has answered, the client's
\* HTTP status is the status of the relay's error, with a detail text.
C3_ErrorStatusReachesClient ==
    (rpc = "raised" /\ apc = "responded") =>
        /\ client.status = relay_error.status_code
        /\ client.detail # ""

C5_CorrelationFieldRemoved ==
    \A i \in 1..Len(outbound) :
        LET body == outbound[i].json
        IN  /\ inbound.endpoint = "/chat/completions" => "response_format" \notin DOMAIN body
            /\ inbound.endpoint = "/v1/messages" =>
                    ~("metadata" \in DOMAIN body /\ "user_id" \in DOMAIN body["metadata"])

\* C6: no relay ends with a trace that was opened and never updated; a relay
\* closed at its yield by the disconnect of the inbound client has given its
\* trace a terminal update.
C6_DisconnectFinalizesTrace ==
    (RelayEnded /\ trace.opened > 0) => Len(trace.updates) >= 1

\* C7: a relay opens its trace once and, by the time it has ended, has applied
\* exactly one terminal update; it never applies two.
C7_ExactlyOneTerminalUpdate ==
    /\ Len(trace.updates) <= 1
    /\ rpc # "none" /\ rpc # "created" => trace.opened = 1
    /\ RelayEnded => Len(trace.updates) = 1

LinesProcessed == IF rpc \in {"yield", "resumed", "closed"} THEN pos - 1 ELSE pos
C9_MalformedLineSkipped ==
    Streaming200 =>
        /\ exc.type # "JSONDecodeError"
        /\ output_content = JStr(ConcatDeltas(SubSeq(upstream.lines, 1, LinesProcessed)))
        /\ \A i \in 1..LinesProcessed :
                IsMalformedData(upstream.lines[i]) =>
                    \E k \in 1..Len(yielded) : yielded[k] = Chunk(LineText(upstream.lines[i]))
        /\ rpc = "done" =>
                /\ trace.updates = <<[kind |-> "success", output |-> output_content,
                                      usage |-> JNull, status_message |-> ""]>>
                /\ Len(yielded) = Len(NonEmptyLines(UpToSentinel(upstream.lines)))
C9_Witness ==
    /\ Streaming200
    /\ rpc = "done"
    /\ upstream.lines = <<DeltaLineA, MalformedLine, DeltaLineB>>
    /\ Len(yielded) = 3
    /\ trace.updates[1].kind = "success"
    /\ trace.updates[1].output = JStr("ab")

\* C10: a buffered relay that got a 200 answer with a JSON object body raises
\* nothing and, once it has yielded, has yielded exactly one chunk, the
\* serialization of that body, and the only update of the trace records the
\* first choice's message content as output and the body's usage object as
\* usage.
FirstChoice(body) == ValueOf(body.v, "choices").v[1]
HasFirstChoiceContent(body) ==
    /\ HasKey(body.v, "choices")
    /\ ValueOf(body.v, "choices").v # <<>>
    /\ HasKey(FirstChoice(body).v, "message")
    /\ HasKey(ValueOf(FirstChoice(body).v, "message").v, "content")
IsJsonObject(text) == JsonLoads(text).ok /\ JsonLoads(text).val.t = "obj"
C10_BufferedRelay ==
    /\ (Buffered200 /\ IsJsonObject(upstream.body.text)) =>
            (exc = NoExc /\ rpc \in {"body", "yield", "closed"})
    /\ (Buffered200 /\ rpc \in {"yield", "closed"}) =>
        LET body == JsonLoads(upstream.body.text).val
        IN  /\ yielded = <<JsonDumps(body)>>
            /\ Len(trace.updates) = 1
            /\ trace.updates[1].kind = "success"
            /\ HasFirstChoiceContent(body) =>
                    trace.updates[1].output =
                        ValueOf(ValueOf(FirstChoice(body).v, "message").v, "content")
            /\ HasKey(body.v, "usage") => trace.updates[1].usage = ValueOf(body.v, "usage")
            /\ upstream.body.text =
                    "{\"choices\":[{\"message\":{\"content\":\"hi\"}}],\"usage\":{\"total_tokens\":5}}" =>
                    /\ yielded[1] =
                        "{\"choices\": [{\"message\": {\"content\": \"hi\"}}], \"usage\": {\"total_tokens\": 5}}"
                    /\ trace.updates[1].output = JStr("hi")
                    /\ trace.updates[1].usage = JObj(<< <<"total_tokens", JNum(5)>> >>)
C10_Witness ==
    /\ Buffered200
    /\ rpc = "yield"
    /\ upstream.body.text =
            "{\"choices\":[{\"message\":{\"content\":\"hi\"}}],\"usage\":{\"total_tokens\":5}}"
    /\ Len(yielded) = 1
    /\ trace.updates[1].output = JStr("hi")

\* C11: a buffered request on either endpoint that has been answered 200 got
\* as its body the one chunk the relay yielded, character for character.
C11_BufferedBodyIsChunk ==
    (apc = "responded" /\ client.status = 200 /\ ~request_data["stream"]) =>
        /\ Len(yielded) = 1
        /\ client.body = yielded[1]
C11_Witness ==
    /\ apc = "responded"
    /\ inbound.endpoint = "/v1/messages"
    /\ client.status = 200
    /\ ~request_data["stream"]
    /\ client.body = yielded[1]
    /\ client.body # ""

\* C12: a relay invocation that has ended, however it ended, has no outbound
\* response or client open; in particular once the inbound client has
\* disconnected mid-stream the generator is closed and the connection with it.
C12_NoConnectionOutlivesRelay ==
    /\ RelayEnded => ~conn_open
    /\ apc = "disconnected" => (rpc = "closed" /\ ~conn_open)
C12_Witness ==
    /\ apc = "disconnected"
    /\ rpc = "closed"
    /\ Streaming200
    /\ pos < Len(upstream.lines)
    /\ Len(yielded) >= 1
    /\ ~conn_open

\* C13 as stated: every POST request that has been handled started exactly
\* one relay invocation, which made at most one outbound call and none
\* without the credential.
C13_OneRelayPerRequest ==
    /\ apc # "recv" => relays = 1
    /\ Len(outbound) <= 1
    /\ ~api_key_set => outbound = <<>>
\* C13 amended: a POST request starts at most one relay invocation: exactly
\* one, once handled, when its body is a JSON object whose metadata, on
\* /v1/messages, is absent or an object, and none otherwise; a relay
\* invocation makes at most one outbound call, none without the credential,
\* and none after a failed call.
ReachesRelay ==
    /\ inbound.valid
    /\ inbound.object
    /\ (inbound.endpoint = "/v1/messages" /\ "metadata" \in DOMAIN inbound.data) =>
            PyIsDict(inbound.data["metadata"])
C13_OneRelayPerParsedRequest ==
    /\ (apc # "recv" /\ ReachesRelay) => relays = 1
    /\ (apc = "recv" \/ ~ReachesRelay) => relays = 0
    /\ Len(outbound) <= relays
    /\ ~api_key_set => outbound = <<>>
    /\ (RelayEnded /\ exc # NoExc) => Len(outbound) <= 1
C13_Witness ==
    /\ relays = 1
    /\ Len(outbound) = 1
    /\ upstream.kind = "failure"
    /\ rpc = "raised"
    /\ apc = "responded"

\* C14: a POST request on either endpoint whose body is not valid JSON has
\* been answered 400, and no relay invocation, trace record or upstream call
\* was made for it.
C14_InvalidBodyIs400 ==
    (apc = "responded" /\ ~inbound.valid) =>
        /\ client.status = 400
        /\ relays = 0
        /\ trace.opened = 0
        /\ outbound = <<>>

\* What the claims about model ids speak of.
Occurs(sub, id) == \E i \in 1..Len(id) : \E j \in i..Len(id) : SubSeq(id, i, j) = sub
HasSlash(id) == \E i \in 1..Len(id) : id[i] = "/"
HasClaude(id) == Occurs(<<"c", "l", "a", "u", "d", "e">>, id)
HasGpt(id) == Occurs(<<"g", "p", "t">>, id)
Dashes(id) == {i \in 1..Len(id) : id[i] = "-"}
\* The id's dash-separated parts are one more than its dashes.
DashParts(id) == Cardinality(Dashes(id)) + 1
\* The first three dash-separated parts joined with '-': the id up to its
\* third dash.
FirstThreeParts(id) ==
    LET third == CHOOSE i \in Dashes(id) : Cardinality({j \in Dashes(id) : j < i}) = 2
    IN  SubSeq(id, 1, third - 1)
AnthropicForm(id) ==
    <<"a", "n", "t", "h", "r", "o", "p", "i", "c", "/">>
        \o (IF DashParts(id) > 3 THEN FirstThreeParts(id) ELSE id)
OpenAIForm(id) == <<"o", "p", "e", "n", "a", "i", "/">> \o id
\* The id the client sent and the id the relay goes on with.
Normalized == rpc = "try"
ModelIn == inbound.data["model"]
ModelOut == request_data["model"]

\* C15: an id containing '/' comes out of normalize unchanged, whatever else
\* it contains.
C15_SlashIsIdentity ==
    (Normalized /\ HasSlash(ModelIn)) => ModelOut = ModelIn
C15_Witness ==
    /\ Normalized
    /\ HasSlash(ModelIn)
    /\ HasClaude(ModelIn)
    /\ HasGpt(ModelIn)
    /\ DashParts(ModelIn) > 1
    /\ ModelOut = ModelIn

\* C16: an id without '/' that contains "claude" comes out as "anthropic/"
\* followed by its first three dash-separated parts joined with '-' when it
\* has more than three parts, and by the whole id when it has three or fewer.
C16_ClaudeRule ==
    (Normalized /\ ~HasSlash(ModelIn) /\ HasClaude(ModelIn)) =>
        ModelOut = AnthropicForm(ModelIn)
C16_Witness ==
    /\ Normalized
    /\ ModelIn = <<"c", "l", "a", "u", "d", "e", "-", "3", "-", "h", "a", "i", "k", "u", "-",
                   "2", "0", "2", "4", "0", "3", "0", "7">>
    /\ ModelOut = <<"a", "n", "t", "h", "r", "o", "p", "i", "c", "/",
                    "c", "l", "a", "u", "d", "e", "-", "3", "-", "h", "a", "i", "k", "u">>

\* C17: the rules apply in order and the first match wins: without '/' and
\* without "claude", an id containing "gpt" comes out prefixed with "openai/"
\* and is otherwise unmodified; an id with both "claude" and "gpt" gets the
\* "anthropic/" rule only; an id that matches no rule comes out unchanged.
C17_FirstMatchWins ==
    (Normalized /\ ~HasSlash(ModelIn)) =>
        /\ (~HasClaude(ModelIn) /\ HasGpt(ModelIn)) => ModelOut = OpenAIForm(ModelIn)
        /\ (HasClaude(ModelIn) /\ HasGpt(ModelIn)) => ModelOut = AnthropicForm(ModelIn)
        /\ (~HasClaude(ModelIn) /\ ~HasGpt(ModelIn)) => ModelOut = ModelIn
C17_Witness ==
    /\ Normalized
    /\ ~HasSlash(ModelIn)
    /\ HasClaude(ModelIn)
    /\ HasGpt(ModelIn)
    /\ ModelOut = AnthropicForm(ModelIn)
    /\ ModelOut # OpenAIForm(ModelIn)

\* The value of the endpoint's correlation field in the request, None when
\* the request has no such field.
CorrelationOf(req) ==
    LET f == IF req.endpoint = "/chat/completions" THEN "response_format" ELSE "metadata"
        k == IF req.endpoint = "/chat/completions" THEN "type" ELSE "user_id"
    IN  IF f \in DOMAIN req.data /\ PyIsDict(req.data[f]) /\ k \in DOMAIN req.data[f]
        THEN Some(req.data[f][k])
        ELSE None
HasSessionHeader(call) == "X-Session-Id" \in DOMAIN call.headers
\* C18 as stated: the id handed to the relay is the value of the endpoint's
\* correlation field when the request has it and none otherwise, and every
\* outbound call carries X-Session-Id, equal to the id, exactly when there is
\* an id.
C18_HeaderIffCorrelationId ==
    relays = 1 =>
        /\ session_id = CorrelationOf(inbound)
        /\ \A i \in 1..Len(outbound) :
                IF session_id # None
                THEN /\ HasSessionHeader(outbound[i])
                     /\ outbound[i].headers["X-Session-Id"] = session_id[1]
                ELSE ~HasSessionHeader(outbound[i])
\* C18 amended: the id handed to the relay is the value of the endpoint's
\* correlation field when the request has it and none otherwise, and every
\* outbound call carries X-Session-Id, equal to the id, exactly when there is
\* an id and it is not the empty string.
C18_HeaderIffNonEmptyCorrelationId ==
    relays = 1 =>
        /\ session_id = CorrelationOf(inbound)
        /\ trace.opened > 0 => trace.session_id = session_id
        /\ \A i \in 1..Len(outbound) :
                IF session_id # None /\ session_id # Some("")
                THEN /\ HasSessionHeader(outbound[i])
                     /\ outbound[i].headers["X-Session-Id"] = session_id[1]
                ELSE ~HasSessionHeader(outbound[i])
C18_Witness ==
    /\ inbound.endpoint = "/v1/messages"
    /\ relays = 1
    /\ session_id = Some("sess-1")
    /\ Len(outbound) = 1
    /\ HasSessionHeader(outbound[1])
    /\ outbound[1].headers["X-Session-Id"] = "sess-1"

\* C19: the streaming relay never holds more than one chunk its caller has
\* not taken, and whenever it reads an upstream line the chunks of all the
\* lines read before are with the caller, the line just read, if not empty,
\* being the one chunk then held.
C19_IncrementalDelivery ==
    [][/\ Len(yielded') - Len(client'.chunks) <= 1
       /\ pos' = pos + 1 =>
            /\ client.chunks = yielded
            /\ Len(yielded) = Len(NonEmptyLines(SubSeq(upstream.lines, 1, pos)))
            /\ yielded' = IF IsNonEmpty(upstream.lines[pos'])
                          THEN Append(yielded, Chunk(LineText(upstream.lines[pos'])))
                          ELSE yielded]_vars
\* The caller has chunks in hand, the client has them, and the upstream
\* response has lines yet to come.
C19_Witness ==
    /\ Streaming200
    /\ rpc = "loop"
    /\ Len(client.chunks) = 2
    /\ client.chunks = yielded
    /\ pos < Len(upstream.lines)

\* C20: once the upstream connection has failed under a streaming relay that
\* had read pos lines, the chunks yielded are, then and ever after, those of
\* the non-empty lines among the first pos in line order, all of them
\* delivered to the client; the relay goes on to raise, and when it has
\* raised, the only update of the trace is the error update.
ReadFailed == Streaming200 /\ exc.type = "ReadError"
C20_DeliveredChunksStand ==
    ReadFailed =>
        LET ls == NonEmptyLines(SubSeq(upstream.lines, 1, pos))
        IN  /\ Len(yielded) = Len(ls)
            /\ \A i \in 1..Len(ls) : yielded[i] = Chunk(LineText(ls[i]))
            /\ client.chunks = yielded
            /\ rpc \in {"except", "raised"}
            /\ rpc = "raised" =>
                    /\ relay_error # NoExc
                    /\ Len(trace.updates) = 1
                    /\ trace.updates[1].kind = "error"
                    /\ trace.updates[1].status_message = "peer closed connection"
            /\ apc = "responded" => client.ended = "aborted"
C20_Witness ==
    /\ ReadFailed
    /\ rpc = "raised"
    /\ apc = "responded"
    /\ Len(client.chunks) = 2
    /\ Len(NonEmptyLines(upstream.lines)) = 3
    /\ trace.updates[1].kind = "error"

\* C21: once a streaming relay has read the first sentinel line it reads no
\* line after it: the sentinel's chunk is the last chunk yielded, nothing the
\* lines after it carry reaches the caller or the accumulated output, the
\* relay raises nothing, and when it completes, the only update of the trace
\* is the success update with the deltas of the lines before the sentinel.
SentinelRead ==
    /\ Streaming200
    /\ HasSentinel(upstream.lines)
    /\ pos >= FirstSentinel(upstream.lines)
C21_SentinelIsLastChunk ==
    SentinelRead =>
        LET k == FirstSentinel(upstream.lines)
            before == SubSeq(upstream.lines, 1, k)
        IN  /\ pos = k
            /\ Len(yielded) = Len(NonEmptyLines(before))
            /\ yielded[Len(yielded)] = Chunk("data: [DONE]")
            /\ Len(client.chunks) <= Len(yielded)
            /\ exc = NoExc
            /\ rpc \in {"yield", "resumed", "done", "closed"}
            /\ rpc = "done" =>
                    /\ output_content = JStr(ConcatDeltas(before))
                    /\ trace.updates = <<[kind |-> "success", output |-> output_content,
                                          usage |-> JNull, status_message |-> ""]>>
C21_Witness ==
    /\ SentinelRead
    /\ rpc = "done"
    /\ apc = "responded"
    /\ FirstSentinel(upstream.lines) = 2
    /\ Len(upstream.lines) = 3
    /\ DeltaText(upstream.lines[3]) = "b"
    /\ output_content = JStr("a")
    /\ client.chunks[Len(client.chunks)] = Chunk("data: [DONE]")

\* A data line whose payload is valid JSON and carries no text delta.
IsDeltaless(l) ==
    /\ l.marker = "data: "
    /\ l.core \in {"{\"choices\":[]}", "{\"choices\":[{\"delta\":{\"content\":null}}]}", "5"}
\* C22: under a streaming relay with a 200 answer no line's content raises:
\* the only exception there can be is a failure of the connection; and every
\* line processed so far that is valid JSON without a text delta has its
\* chunk yielded, has left the accumulated output as it was, and was followed
\* by the next turn of the loop.
C22_LineContentNeverAborts ==
    Streaming200 =>
        /\ exc.type \in {"none", "ReadError"}
        /\ Len(yielded) = Len(NonEmptyLines(SubSeq(upstream.lines, 1, pos)))
        /\ output_content = JStr(ConcatDeltas(SubSeq(upstream.lines, 1, LinesProcessed)))
        /\ \A i \in 1..LinesProcessed :
                IsDeltaless(upstream.lines[i]) =>
                    /\ yielded[Len(NonEmptyLines(SubSeq(upstream.lines, 1, i)))]
                            = Chunk(LineText(upstream.lines[i]))
                    /\ (i = pos => rpc \in {"loop", "done"} \/ exc.type = "ReadError")

\* normalize as the rules state it.
NormalForm(id) ==
    IF HasSlash(id) THEN id
    ELSE IF HasClaude(id) THEN AnthropicForm(id)
    ELSE IF HasGpt(id) THEN OpenAIForm(id)
    ELSE id
\* C23: the JSON body of every outbound call has the fields of the inbound
\* request other than response_format, the model being normalize of the
\* inbound model and every other field, messages and stream among them, being
\* the inbound one; and the relay runs its streaming branch exactly when the
\* inbound stream flag, by which the handler chose its mode, is set.
C23_OutboundBodyFrame ==
    /\ \A i \in 1..Len(outbound) :
            LET sent == outbound[i].json
                received == inbound.data
            IN  /\ DOMAIN sent = (DOMAIN received) \ {"response_format"}
                /\ sent["model"] = NormalForm(received["model"])
                /\ \A k \in (DOMAIN sent) \ {"model"} : sent[k] = received[k]
    /\ rpc \in {"loop", "resumed"} => (inbound.data["stream"] /\ client.status = 200)
    /\ rpc = "body" => (~inbound.data["stream"] /\ apc = "buffered")
C23_Witness ==
    /\ Len(outbound) = 1
    /\ inbound.endpoint = "/chat/completions"
    /\ "response_format" \in DOMAIN inbound.data
    /\ "response_format" \notin DOMAIN outbound[1].json
    /\ HasClaude(inbound.data["model"])
    /\ outbound[1].json["model"] = AnthropicForm(inbound.data["model"])
    /\ outbound[1].json["messages"] = inbound.data["messages"]
    /\ Len(outbound[1].json["messages"]) = 2
    /\ outbound[1].json["stream"]
    /\ rpc = "loop"

\* C24: normalize applied to an id the relay has normalized gives that id
\* again, the normalized id either containing '/' or being the inbound id
\* itself, which no rule matches.
C24_NormalizeIdempotent ==
    Normalized =>
        /\ normalize_model_name(ModelOut) = ModelOut
        /\ \/ HasSlash(ModelOut)
           \/ /\ ModelOut = ModelIn
              /\ ~HasClaude(ModelIn)
              /\ ~HasGpt(ModelIn)
C24_Witness ==
    /\ Normalized
    /\ ~HasSlash(ModelIn)
    /\ HasClaude(ModelIn)
    /\ DashParts(ModelIn) > 3
    /\ ModelOut # ModelIn
    /\ normalize_model_name(ModelOut) = ModelOut

====
